---- MODULE Spec2Model ----
(***************************************************************************)
(* Model of the R1CS gadget layer, crypto/src/proofs/groth16/gadgets2.rs.  *)
(*                                                                         *)
(* The constraint backend (ark-relations / ark-r1cs-std), the decaf377     *)
(* group and the poseidon377 hash are external primitives.  They are       *)
(* modelled at a reduced scale:                                            *)
(*   - Fq is the integers modulo FqModulus, Fr the integers modulo         *)
(*     FrModulus;                                                          *)
(*   - the decaf377 group is the cyclic group of order FrModulus, written  *)
(*     additively, with identity 0 and basepoint 1;                        *)
(*   - a 32-byte array is NumBytes bytes of ByteBits bits each; the        *)
(*     encoding of the group element g is the little-endian encoding of    *)
(*     the field element 2g, so some byte strings are canonical field      *)
(*     elements without being points, and some are not even canonical;     *)
(*   - the hash is an ideal (collision-free) hash: a term that records     *)
(*     its arity, its domain separator and its inputs, in order.           *)
(* A field element is the tagged value <<"Fq", n>>; a hash output is the   *)
(* tagged term <<"poseidon", arity, separator, inputs>>.                   *)
(***************************************************************************)
EXTENDS Integers, Sequences, FiniteSets, TLC

VARIABLES cs, status, last, reg, given

vars == <<cs, status, last, reg, given>>

---------------------------------------------------------------------------
(* Scaled primitives.                                                      *)

FqModulus == 13
FrModulus == 5
NumBytes == 2
ByteBits == 2

(* Bounds on the values the callers supply.                                *)
MaxFq == 1
MaxAmount == 1
MaxPosition == 1
MaxElement == 1
MaxEncoding == 2
MaxClue == 0

RECURSIVE Pow2(_)
Pow2(n) == IF n = 0 THEN 1 ELSE 2 * Pow2(n - 1)

ByteRange == 0 .. (Pow2(ByteBits) - 1)

ByteArrays == [1 .. NumBytes -> ByteRange]

RECURSIVE LeIntFrom(_, _)
LeIntFrom(bytes, i) ==
    IF i > Len(bytes) THEN 0
    ELSE bytes[i] + Pow2(ByteBits) * LeIntFrom(bytes, i + 1)

(* The integer a byte array denotes, little-endian.                        *)
LeInt(bytes) == LeIntFrom(bytes, 1)

(* The little-endian byte array of n.                                      *)
ToLeBytes(n) ==
    [i \in 1 .. NumBytes |-> (n \div Pow2(ByteBits * (i - 1))) % Pow2(ByteBits)]

Ok(v) == [ok |-> TRUE, val |-> <<v>>]
Err == [ok |-> FALSE, val |-> <<>>]
Unwrap(r) == r.val[1]

(* Field elements.                                                         *)
Fq(n) == <<"Fq", n % FqModulus>>

(* Fq::from(u64): no reduction happens for values below the modulus.       *)
Fq_from(n) == Fq(n)

(* Fq::from_le_bytes_mod_order: reduces the integer modulo the modulus.    *)
Fq_from_le_bytes_mod_order(bytes) == Fq(LeInt(bytes))

(* Fq::deserialize: accepts only the canonical encodings.                  *)
Fq_deserialize(bytes) ==
    IF LeInt(bytes) < FqModulus THEN Ok(Fq(LeInt(bytes))) ELSE Err

(* Fr::to_bytes: the canonical little-endian serialization of a scalar.    *)
Fr_to_bytes(r) == ToLeBytes(r % FrModulus)

(* The group.                                                              *)
Elements == 0 .. (FrModulus - 1)
Element_default == 0
Element_add(a, b) == (a + b) % FrModulus
Element_double(a) == Element_add(a, a)

(* decaf377::basepoint()                                                   *)
SPENDAUTH_BASEPOINT == 1

(* Element::vartime_compress_to_field: the field element s encoding g.     *)
Element_compress_to_field(g) == Fq(2 * g)

(* Encoding::vartime_decompress: fails on a non-canonical field element    *)
(* and on a field element that encodes no point.                           *)
Encoding_vartime_decompress(bytes) ==
    LET s == LeInt(bytes)
    IN  IF s < FqModulus /\ s % 2 = 0 /\ (s \div 2) < FrModulus
        THEN Ok(s \div 2)
        ELSE Err

(* The ideal hash with a domain separator: poseidon377::hash_N.            *)
Poseidon(sep, inputs) == <<"poseidon", Len(inputs), sep, inputs>>

(* The domain separators: fixed field elements derived from two labels.    *)
NOTECOMMIT_DOMAIN_SEP == Fq(11)
NULLIFIER_DOMAIN_SEP == Fq(12)

---------------------------------------------------------------------------
(* The constraint system: the instance (public input) assignment, the      *)
(* witness assignment, and the constraints enforced so far.                *)

EmptyCS == [instance |-> <<>>, witness |-> <<>>, constraints |-> <<>>]

AllocationMode == {"Constant", "Input", "Witness"}

(* A circuit variable: how it was allocated, its index in the assignment   *)
(* it was pushed to (0 for a constant), and the value assigned to it.      *)
Variable(kind, idx, val) == [kind |-> kind, idx |-> idx, val |-> val]

Allocated(c, v) == [cs |-> c, var |-> v]

new_constant(c, val) == Allocated(c, Variable("Constant", 0, val))

new_input(c, val) ==
    Allocated([c EXCEPT !.instance = Append(@, val)],
              Variable("Input", Len(c.instance) + 1, val))

new_witness(c, val) ==
    Allocated([c EXCEPT !.witness = Append(@, val)],
              Variable("Witness", Len(c.witness) + 1, val))

(* The outcome of a constructor or a derivation: Ok(gadget), a synthesis   *)
(* error returned to the caller, or a panic (unimplemented!(), unwrap()).  *)
(* The constraint system is the one the call leaves behind.                *)
Return(c, gadget) == [status |-> "ok", cs |-> c, var |-> <<gadget>>]
SynthesisError(c) == [status |-> "err", cs |-> c, var |-> <<>>]
Panic(c) == [status |-> "panic", cs |-> c, var |-> <<>>]

---------------------------------------------------------------------------
(* Off-circuit values.                                                     *)

Elem(g) == <<"Element", g>>
UInt8(b) == <<"UInt8", b>>

(* Address::from_components: keeps the transmission key bytes together     *)
(* with the field element they deserialize to, and rejects bytes that are  *)
(* no canonical field element.  It does not check that they encode a point.*)
Address_from_components(g_d, pk_d, ck_d) ==
    LET s == Fq_deserialize(pk_d)
    IN  IF s.ok
        THEN Ok([diversified_generator |-> g_d,
                 transmission_key |-> pk_d,
                 transmission_key_s |-> Unwrap(s),
                 clue_key |-> ck_d])
        ELSE Err

FqInputs == {Fq(n) : n \in 0 .. MaxFq}
Amounts == 0 .. MaxAmount
AssetIds == FqInputs
Values == [amount : Amounts, asset_id : AssetIds]
Positions == 0 .. MaxPosition
GeneratorInputs == {g \in Elements : g <= MaxElement}
EncodingInputs == {b \in ByteArrays : LeInt(b) <= MaxEncoding}
ClueKeys == {b \in ByteArrays : LeInt(b) % FqModulus <= MaxClue}
Addresses ==
    {Unwrap(Address_from_components(g, pk, ck)) :
        <<g, pk, ck>> \in {t \in GeneratorInputs \X EncodingInputs \X ClueKeys :
                              Address_from_components(t[1], t[2], t[3]).ok}}
Notes == [note_blinding : FqInputs, value : Values, address : Addresses]
Commitments == FqInputs
NullifierKeys == FqInputs
Nullifiers == FqInputs
(* The bytes of a verification key.  The constructors decompress them      *)
(* again and provide for a failure, so every byte string is supplied.      *)
VerificationKeys == EncodingInputs
Scalars == 0 .. (FrModulus - 1)

(* What a value supplier f() returns: a value, or AssignmentMissing.       *)
Suppliers(S) == {Ok(v) : v \in S} \cup {Err}

---------------------------------------------------------------------------
(* The constructors: impl AllocVar<_, Fq> for each gadget.                 *)

AmountVar_new_variable(c, f, mode) ==
    IF ~f.ok THEN SynthesisError(c)
    ELSE IF mode # "Witness" THEN Panic(c)
    ELSE LET amount == Unwrap(f)
             inner_amount_var == new_witness(c, Fq_from(amount))
         IN  Return(inner_amount_var.cs, [amount |-> inner_amount_var.var])

AssetIdVar_new_variable(c, f, mode) ==
    IF ~f.ok THEN SynthesisError(c)
    ELSE IF mode # "Witness" THEN Panic(c)
    ELSE LET asset_id == Unwrap(f)
             inner_asset_id_var == new_witness(c, asset_id)
         IN  Return(inner_asset_id_var.cs, [asset_id |-> inner_asset_id_var.var])

ValueVar_new_variable(c, f, mode) ==
    IF ~f.ok THEN SynthesisError(c)
    ELSE IF mode # "Witness" THEN Panic(c)
    ELSE LET value == Unwrap(f)
             amount_var == AmountVar_new_variable(c, Ok(value.amount), "Witness")
         IN  IF amount_var.status # "ok" THEN amount_var
             ELSE LET asset_id_var ==
                          AssetIdVar_new_variable(amount_var.cs, Ok(value.asset_id),
                                                  "Witness")
                  IN  IF asset_id_var.status # "ok" THEN asset_id_var
                      ELSE Return(asset_id_var.cs,
                                  [amount |-> amount_var.var[1],
                                   asset_id |-> asset_id_var.var[1]])

(* A faulty variant: the transmission key element is taken from the        *)
(* diversified generator.                                                  *)
AddressVar_new_variable_wrong_element(c, f, mode) ==
    IF ~f.ok THEN SynthesisError(c)
    ELSE IF mode # "Witness" THEN Panic(c)
    ELSE LET address == Unwrap(f)
             diversified_generator ==
                 new_witness(c, Elem(address.diversified_generator))
             transmission_key_s ==
                 new_witness(diversified_generator.cs, address.transmission_key_s)
             element_transmission_key ==
                 Encoding_vartime_decompress(address.transmission_key)
         IN  IF ~element_transmission_key.ok
             THEN SynthesisError(transmission_key_s.cs)
             ELSE LET transmission_key ==
                          new_witness(transmission_key_s.cs,
                                      Elem(address.diversified_generator))
                      clue_key ==
                          new_witness(transmission_key.cs,
                                      Fq_from_le_bytes_mod_order(address.clue_key))
                  IN  Return(clue_key.cs,
                             [diversified_generator |-> diversified_generator.var,
                              transmission_key_s |-> transmission_key_s.var,
                              transmission_key |-> transmission_key.var,
                              clue_key |-> clue_key.var])

AddressVar_new_variable(c, f, mode) ==
    IF ~f.ok THEN SynthesisError(c)
    ELSE IF mode # "Witness" THEN Panic(c)
    ELSE LET address == Unwrap(f)
             diversified_generator ==
                 new_witness(c, Elem(address.diversified_generator))
             transmission_key_s ==
                 new_witness(diversified_generator.cs, address.transmission_key_s)
             element_transmission_key ==
                 Encoding_vartime_decompress(address.transmission_key)
         IN  IF ~element_transmission_key.ok
             THEN SynthesisError(transmission_key_s.cs)
             ELSE LET transmission_key ==
                          new_witness(transmission_key_s.cs,
                                      Elem(Unwrap(element_transmission_key)))
                      clue_key ==
                          new_witness(transmission_key.cs,
                                      Fq_from_le_bytes_mod_order(address.clue_key))
                  IN  Return(clue_key.cs,
                             [diversified_generator |-> diversified_generator.var,
                              transmission_key_s |-> transmission_key_s.var,
                              transmission_key |-> transmission_key.var,
                              clue_key |-> clue_key.var])

NoteVar_new_variable(c, f, mode) ==
    IF mode # "Witness" THEN Panic(c)
    ELSE IF ~f.ok THEN SynthesisError(c)
    ELSE LET note == Unwrap(f)
             note_blinding == new_witness(c, note.note_blinding)
             value == ValueVar_new_variable(note_blinding.cs, Ok(note.value), "Witness")
         IN  IF value.status # "ok" THEN value
             ELSE LET address ==
                          AddressVar_new_variable(value.cs, Ok(note.address), "Witness")
                  IN  IF address.status # "ok" THEN address
                      ELSE Return(address.cs,
                                  [note_blinding |-> note_blinding.var,
                                   value |-> value.var[1],
                                   address |-> address.var[1]])

NoteCommitmentVar_new_variable(c, f, mode) ==
    CASE mode = "Constant" -> Panic(c)
      [] mode = "Input" ->
            IF ~f.ok THEN SynthesisError(c)
            ELSE LET inner == new_input(c, Unwrap(f))
                 IN  Return(inner.cs, [inner |-> inner.var])
      [] mode = "Witness" ->
            IF ~f.ok THEN SynthesisError(c)
            ELSE LET inner == new_witness(c, Unwrap(f))
                 IN  Return(inner.cs, [inner |-> inner.var])

PositionVar_new_variable(c, f, mode) ==
    IF ~f.ok THEN SynthesisError(c)
    ELSE IF mode # "Witness" THEN Panic(c)
    ELSE LET inner == new_witness(c, Fq_from(Unwrap(f)))
         IN  Return(inner.cs, [inner |-> inner.var])

NullifierKeyVar_new_variable(c, f, mode) ==
    IF ~f.ok THEN SynthesisError(c)
    ELSE IF mode # "Witness" THEN Panic(c)
    ELSE LET inner == new_witness(c, Unwrap(f))
         IN  Return(inner.cs, [inner |-> inner.var])

(* A faulty variant: a witness request is served instead of rejected.      *)
NullifierVar_new_variable_lenient(c, f, mode) ==
    IF ~f.ok THEN SynthesisError(c)
    ELSE IF mode = "Constant" THEN Panic(c)
    ELSE IF mode = "Input"
         THEN LET inner == new_input(c, Unwrap(f))
              IN  Return(inner.cs, [inner |-> inner.var])
         ELSE LET inner == new_witness(c, Unwrap(f))
              IN  Return(inner.cs, [inner |-> inner.var])

NullifierVar_new_variable(c, f, mode) ==
    IF ~f.ok THEN SynthesisError(c)
    ELSE IF mode # "Input" THEN Panic(c)
    ELSE LET inner == new_input(c, Unwrap(f))
         IN  Return(inner.cs, [inner |-> inner.var])

RandomizedVerificationKey_new_variable(c, f, mode) ==
    IF ~f.ok THEN SynthesisError(c)
    ELSE IF mode # "Input" THEN Panic(c)
    ELSE LET point == Encoding_vartime_decompress(Unwrap(f))
         IN  IF ~point.ok THEN Panic(c)
             ELSE LET element_var == new_witness(c, Elem(Unwrap(point)))
                  IN  Return(element_var.cs, [inner |-> element_var.var])

AuthorizationKeyVar_new_variable(c, f, mode) ==
    IF ~f.ok THEN SynthesisError(c)
    ELSE IF mode # "Witness" THEN Panic(c)
    ELSE LET ak_point == Encoding_vartime_decompress(Unwrap(f))
         IN  IF ~ak_point.ok THEN Panic(c)
             ELSE LET ak_element_var == new_witness(c, Elem(Unwrap(ak_point)))
                  IN  Return(ak_element_var.cs, [inner |-> ak_element_var.var])

RECURSIVE new_witness_vec(_, _, _, _)
(* UInt8::new_witness_vec: one witness per byte, in order.                 *)
new_witness_vec(c, bytes, i, acc) ==
    IF i > Len(bytes) THEN Allocated(c, acc)
    ELSE LET b == new_witness(c, UInt8(bytes[i]))
         IN  new_witness_vec(b.cs, bytes, i + 1, Append(acc, b.var))

SpendAuthRandomizerVar_new_variable(c, f, mode) ==
    IF ~f.ok THEN SynthesisError(c)
    ELSE IF mode # "Witness" THEN Panic(c)
    ELSE LET spend_auth_randomizer_arr == Fr_to_bytes(Unwrap(f))
             inner == new_witness_vec(c, spend_auth_randomizer_arr, 1, <<>>)
         IN  Return(inner.cs, [inner |-> inner.var])

---------------------------------------------------------------------------
(* Backend gadgets used by the derivations.                                *)

(* ElementVar::compress_to_field: the field element encoding the point,    *)
(* computed in the circuit (a constant stays a constant).                  *)
ElementVar_compress_to_field(c, element) ==
    IF element.kind = "Constant"
    THEN new_constant(c, Element_compress_to_field(element.val[2]))
    ELSE new_witness(c, Element_compress_to_field(element.val[2]))

(* poseidon377::r1cs::hash_N: the output variable of the hash gadget.      *)
poseidon377_r1cs_hash(c, domain_sep, inputs) ==
    new_witness(c, Poseidon(domain_sep.val, [i \in 1 .. Len(inputs) |-> inputs[i].val]))

(* FqVar::is_eq: the value of the boolean the comparison returns.          *)
FqVar_is_eq(a, b) == a.val = b.val

(* UInt8::to_bits_le over a byte vector: the bits of each byte, least      *)
(* significant first, the bytes in order.                                  *)
to_bits_le(bytes) ==
    [k \in 1 .. (Len(bytes) * ByteBits) |->
        LET byte == bytes[((k - 1) \div ByteBits) + 1].val[2]
            j == (k - 1) % ByteBits
        IN  (byte \div Pow2(j)) % 2 = 1]

RECURSIVE scalar_mul_le_from(_, _, _, _)
scalar_mul_le_from(acc, power, bits, i) ==
    IF i > Len(bits) THEN acc
    ELSE scalar_mul_le_from(IF bits[i] THEN Element_add(acc, power) ELSE acc,
                            Element_double(power), bits, i + 1)

(* ElementVar::scalar_mul_le: double-and-add over little-endian bits.      *)
scalar_mul_le(base, bits) == scalar_mul_le_from(Element_default, base, bits, 1)

(* Whether every constraint enforced so far holds of the assignment.       *)
is_satisfied(c) ==
    \A i \in 1 .. Len(c.constraints) :
        LET k == c.constraints[i]
        IN  k.should_enforce => (k.a.val # k.b.val)

---------------------------------------------------------------------------
(* The derivations.                                                        *)

(* A faulty variant: the check is enforced whatever the flag.              *)
element_not_identity_unconditional(c, enforce, element) ==
    LET identity == new_constant(c, Elem(Element_default))
        enforced == [identity.cs EXCEPT !.constraints =
                        Append(@, [a |-> identity.var, b |-> element,
                                   should_enforce |-> TRUE])]
    IN  Return(enforced, [unit |-> TRUE])

(* Check the element is not identity.                                      *)
element_not_identity(c, enforce, element) ==
    LET identity == new_constant(c, Elem(Element_default))
        enforced == [identity.cs EXCEPT !.constraints =
                        Append(@, [a |-> identity.var, b |-> element,
                                   should_enforce |-> enforce])]
    IN  Return(enforced, [unit |-> TRUE])

(* A faulty variant: amount and asset id are hashed in the other order.    *)
NoteVar_commit_swapped(c, self) ==
    LET domain_sep == new_constant(c, NOTECOMMIT_DOMAIN_SEP)
        compressed_g_d ==
            ElementVar_compress_to_field(domain_sep.cs,
                                         self.address.diversified_generator)
        inputs == <<self.note_blinding,
                    self.value.asset_id.asset_id,
                    self.value.amount.amount,
                    compressed_g_d.var,
                    self.address.transmission_key_s,
                    self.address.clue_key>>
        commitment == poseidon377_r1cs_hash(compressed_g_d.cs, domain_sep.var, inputs)
    IN  [status |-> "ok", cs |-> commitment.cs,
         var |-> <<[inner |-> commitment.var]>>,
         call |-> <<[domain_sep |-> domain_sep.var, inputs |-> inputs]>>]

(* NoteVar::commit.  The record "call" keeps the arguments handed to the   *)
(* hash gadget.                                                            *)
NoteVar_commit(c, self) ==
    LET domain_sep == new_constant(c, NOTECOMMIT_DOMAIN_SEP)
        compressed_g_d ==
            ElementVar_compress_to_field(domain_sep.cs,
                                         self.address.diversified_generator)
        inputs == <<self.note_blinding,
                    self.value.amount.amount,
                    self.value.asset_id.asset_id,
                    compressed_g_d.var,
                    self.address.transmission_key_s,
                    self.address.clue_key>>
        commitment == poseidon377_r1cs_hash(compressed_g_d.cs, domain_sep.var, inputs)
    IN  [status |-> "ok", cs |-> commitment.cs,
         var |-> <<[inner |-> commitment.var]>>,
         call |-> <<[domain_sep |-> domain_sep.var, inputs |-> inputs]>>]

(* A faulty variant: the nullifier is hashed under the commitment's        *)
(* domain separator.                                                       *)
NullifierKeyVar_derive_nullifier_commit_sep(c, self, position, note_commitment) ==
    LET domain_sep == new_constant(c, NOTECOMMIT_DOMAIN_SEP)
        inputs == <<self.inner, note_commitment.inner, position.inner>>
        nullifier == poseidon377_r1cs_hash(domain_sep.cs, domain_sep.var, inputs)
    IN  [status |-> "ok", cs |-> nullifier.cs,
         var |-> <<[inner |-> nullifier.var]>>,
         call |-> <<[domain_sep |-> domain_sep.var, inputs |-> inputs]>>]

(* A faulty variant: the position is left out of the hash.                 *)
NullifierKeyVar_derive_nullifier_no_position(c, self, position, note_commitment) ==
    LET domain_sep == new_constant(c, NULLIFIER_DOMAIN_SEP)
        inputs == <<self.inner, note_commitment.inner, note_commitment.inner>>
        nullifier == poseidon377_r1cs_hash(domain_sep.cs, domain_sep.var, inputs)
    IN  [status |-> "ok", cs |-> nullifier.cs,
         var |-> <<[inner |-> nullifier.var]>>,
         call |-> <<[domain_sep |-> domain_sep.var, inputs |-> inputs]>>]

(* NullifierKeyVar::derive_nullifier.                                      *)
NullifierKeyVar_derive_nullifier(c, self, position, note_commitment) ==
    LET domain_sep == new_constant(c, NULLIFIER_DOMAIN_SEP)
        inputs == <<self.inner, note_commitment.inner, position.inner>>
        nullifier == poseidon377_r1cs_hash(domain_sep.cs, domain_sep.var, inputs)
    IN  [status |-> "ok", cs |-> nullifier.cs,
         var |-> <<[inner |-> nullifier.var]>>,
         call |-> <<[domain_sep |-> domain_sep.var, inputs |-> inputs]>>]

(* EqGadget::is_eq for RandomizedVerificationKey.                          *)
RandomizedVerificationKey_is_eq(c, self, other) ==
    LET self_fq == ElementVar_compress_to_field(c, self.inner)
        other_fq == ElementVar_compress_to_field(self_fq.cs, self.inner)
    IN  Return(other_fq.cs, [value |-> FqVar_is_eq(self_fq.var, other_fq.var)])

(* A faulty variant: the randomizer bits are consumed most significant     *)
(* first.                                                                  *)
AuthorizationKeyVar_randomize_be(c, self, spend_auth_randomizer) ==
    LET spend_auth_basepoint_var == new_constant(c, Elem(SPENDAUTH_BASEPOINT))
        bits == to_bits_le(spend_auth_randomizer.inner)
        multiple == scalar_mul_le(spend_auth_basepoint_var.var.val[2],
                                  [k \in 1 .. Len(bits) |-> bits[Len(bits) + 1 - k]])
        point == new_witness(spend_auth_basepoint_var.cs,
                             Elem(Element_add(self.inner.val[2], multiple)))
    IN  Return(point.cs, [inner |-> point.var])

(* AuthorizationKeyVar::randomize.                                         *)
AuthorizationKeyVar_randomize(c, self, spend_auth_randomizer) ==
    LET spend_auth_basepoint_var == new_constant(c, Elem(SPENDAUTH_BASEPOINT))
        multiple == scalar_mul_le(spend_auth_basepoint_var.var.val[2],
                                  to_bits_le(spend_auth_randomizer.inner))
        point == new_witness(spend_auth_basepoint_var.cs,
                             Elem(Element_add(self.inner.val[2], multiple)))
    IN  Return(point.cs, [inner |-> point.var])

---------------------------------------------------------------------------
(* State.  cs is the constraint system of the construction pass; status    *)
(* is "ok" until a call returns an error or panics; last is the last call  *)
(* and its outcome; reg holds the gadgets built so far, given the          *)
(* off-circuit values they were built from.                                *)

Registers ==
    {"note", "cm", "nk", "pos", "nf", "ak", "rand", "rvk", "rk", "eq", "nonid"}

NoCall ==
    [op |-> "none", ty |-> "none", mode |-> "none", supplied |-> FALSE,
     input |-> <<>>, status |-> "ok", var |-> <<>>, call |-> <<>>]

Init ==
    /\ cs = EmptyCS
    /\ status = "ok"
    /\ last = NoCall
    /\ reg = [r \in Registers |-> <<>>]
    /\ given = [r \in Registers |-> <<>>]

(* One constructor call on a fresh constraint system.                      *)
Construct(ty, mode, f, res) ==
    /\ status = "ok"
    /\ last.op = "none"
    /\ cs' = res.cs
    /\ status' = res.status
    /\ last' = [op |-> "new_variable", ty |-> ty, mode |-> mode,
                supplied |-> f.ok, input |-> f.val, status |-> res.status,
                var |-> res.var, call |-> <<>>]
    /\ UNCHANGED <<reg, given>>

NewAmountVar ==
    \E mode \in AllocationMode, f \in Suppliers(Amounts) :
        Construct("AmountVar", mode, f, AmountVar_new_variable(cs, f, mode))

NewAssetIdVar ==
    \E mode \in AllocationMode, f \in Suppliers(AssetIds) :
        Construct("AssetIdVar", mode, f, AssetIdVar_new_variable(cs, f, mode))

NewValueVar ==
    \E mode \in AllocationMode, f \in Suppliers(Values) :
        Construct("ValueVar", mode, f, ValueVar_new_variable(cs, f, mode))

NewAddressVar ==
    \E mode \in AllocationMode, f \in Suppliers(Addresses) :
        Construct("AddressVar", mode, f, AddressVar_new_variable(cs, f, mode))

NewNoteVar ==
    \E mode \in AllocationMode, f \in Suppliers(Notes) :
        Construct("NoteVar", mode, f, NoteVar_new_variable(cs, f, mode))

NewNoteCommitmentVar ==
    \E mode \in AllocationMode, f \in Suppliers(Commitments) :
        Construct("NoteCommitmentVar", mode, f,
                  NoteCommitmentVar_new_variable(cs, f, mode))

NewPositionVar ==
    \E mode \in AllocationMode, f \in Suppliers(Positions) :
        Construct("PositionVar", mode, f, PositionVar_new_variable(cs, f, mode))

NewNullifierKeyVar ==
    \E mode \in AllocationMode, f \in Suppliers(NullifierKeys) :
        Construct("NullifierKeyVar", mode, f,
                  NullifierKeyVar_new_variable(cs, f, mode))

NewNullifierVar ==
    \E mode \in AllocationMode, f \in Suppliers(Nullifiers) :
        Construct("NullifierVar", mode, f, NullifierVar_new_variable(cs, f, mode))

NewRandomizedVerificationKey ==
    \E mode \in AllocationMode, f \in Suppliers(VerificationKeys) :
        Construct("RandomizedVerificationKey", mode, f,
                  RandomizedVerificationKey_new_variable(cs, f, mode))

NewAuthorizationKeyVar ==
    \E mode \in AllocationMode, f \in Suppliers(VerificationKeys) :
        Construct("AuthorizationKeyVar", mode, f,
                  AuthorizationKeyVar_new_variable(cs, f, mode))

NewSpendAuthRandomizerVar ==
    \E mode \in AllocationMode, f \in Suppliers(Scalars) :
        Construct("SpendAuthRandomizerVar", mode, f,
                  SpendAuthRandomizerVar_new_variable(cs, f, mode))

Next ==
    \/ NewAmountVar
    \/ NewAssetIdVar
    \/ NewValueVar
    \/ NewAddressVar
    \/ NewNoteVar
    \/ NewNoteCommitmentVar
    \/ NewPositionVar
    \/ NewNullifierKeyVar
    \/ NewNullifierVar
    \/ NewRandomizedVerificationKey
    \/ NewAuthorizationKeyVar
    \/ NewSpendAuthRandomizerVar

Spec == Init /\ [][Next]_vars

---------------------------------------------------------------------------
(* Construction passes: gadgets are allocated into one constraint system   *)
(* and derivations are applied to them.  A pass stops at the first call    *)
(* that fails.  Each gadget of a pass is allocated once.                   *)

Allocate(name, ty, mode, v, res) ==
    /\ status = "ok"
    /\ reg[name] = <<>>
    /\ cs' = res.cs
    /\ status' = res.status
    /\ reg' = [reg EXCEPT ![name] = res.var]
    /\ given' = [given EXCEPT ![name] = <<v>>]
    /\ last' = [op |-> "new_variable", ty |-> ty, mode |-> mode,
                supplied |-> TRUE, input |-> <<v>>, status |-> res.status,
                var |-> res.var, call |-> <<>>]

Derive(name, op, res) ==
    /\ status = "ok"
    /\ cs' = res.cs
    /\ status' = res.status
    /\ reg' = [reg EXCEPT ![name] = res.var]
    /\ given' = [given EXCEPT ![name] = res.call]
    /\ last' = [op |-> op, ty |-> name, mode |-> "none", supplied |-> TRUE,
                input |-> <<>>, status |-> res.status, var |-> res.var,
                call |-> res.call]

AllocateNote ==
    \E n \in Notes :
        Allocate("note", "NoteVar", "Witness", n,
                 NoteVar_new_variable(cs, Ok(n), "Witness"))

AllocateNullifierKey ==
    \E nk \in NullifierKeys :
        Allocate("nk", "NullifierKeyVar", "Witness", nk,
                 NullifierKeyVar_new_variable(cs, Ok(nk), "Witness"))

AllocatePosition ==
    \E pos \in Positions :
        Allocate("pos", "PositionVar", "Witness", pos,
                 PositionVar_new_variable(cs, Ok(pos), "Witness"))

AllocateCommitment ==
    \E cm \in Commitments, mode \in {"Input", "Witness"} :
        Allocate("cm", "NoteCommitmentVar", mode, cm,
                 NoteCommitmentVar_new_variable(cs, Ok(cm), mode))

Commit ==
    /\ reg.note # <<>>
    /\ reg.cm = <<>>
    /\ Derive("cm", "commit", NoteVar_commit(cs, reg.note[1]))

DeriveNullifier ==
    /\ reg.nk # <<>>
    /\ reg.pos # <<>>
    /\ reg.cm # <<>>
    /\ reg.nf = <<>>
    /\ Derive("nf", "derive_nullifier",
              NullifierKeyVar_derive_nullifier(cs, reg.nk[1], reg.pos[1], reg.cm[1]))

(* A note is allocated and committed to, and its nullifier derived.        *)
NextNote ==
    \/ AllocateNote
    \/ Commit
    \/ AllocateNullifierKey
    \/ AllocatePosition
    \/ DeriveNullifier

SpecNote == Init /\ [][NextNote]_vars

(* A nullifier is derived from an allocated commitment.                    *)
NextNullifier ==
    \/ AllocateCommitment
    \/ AllocateNullifierKey
    \/ AllocatePosition
    \/ DeriveNullifier

SpecNullifier == Init /\ [][NextNullifier]_vars

AllocateAuthorizationKey ==
    \E vk \in VerificationKeys :
        Allocate("ak", "AuthorizationKeyVar", "Witness", vk,
                 AuthorizationKeyVar_new_variable(cs, Ok(vk), "Witness"))

AllocateRandomizer ==
    \E r \in Scalars :
        Allocate("rand", "SpendAuthRandomizerVar", "Witness", r,
                 SpendAuthRandomizerVar_new_variable(cs, Ok(r), "Witness"))

AllocateRandomizedKey ==
    \E vk \in VerificationKeys :
        Allocate("rvk", "RandomizedVerificationKey", "Input", vk,
                 RandomizedVerificationKey_new_variable(cs, Ok(vk), "Input"))

Randomize ==
    /\ reg.ak # <<>>
    /\ reg.rand # <<>>
    /\ reg.rk = <<>>
    /\ LET res == AuthorizationKeyVar_randomize(cs, reg.ak[1], reg.rand[1])
       IN  Derive("rk", "randomize", res @@ [call |-> <<>>])

(* The randomized keys of the pass: the allocated one and the derived one. *)
RandomizedKeys == {reg.rvk[i] : i \in DOMAIN reg.rvk} \cup {reg.rk[i] : i \in DOMAIN reg.rk}

(* The group elements of the pass.                                         *)
ElementVars == {k.inner : k \in RandomizedKeys} \cup {reg.ak[i].inner : i \in DOMAIN reg.ak}

Apply(name, op, args, res) ==
    /\ status = "ok"
    /\ reg[name] = <<>>
    /\ cs' = res.cs
    /\ status' = res.status
    /\ reg' = [reg EXCEPT ![name] = res.var]
    /\ given' = [given EXCEPT ![name] = args]
    /\ last' = [op |-> op, ty |-> name, mode |-> "none", supplied |-> TRUE,
                input |-> args, status |-> res.status, var |-> res.var,
                call |-> <<>>]

IsEq ==
    \E a \in RandomizedKeys, b \in RandomizedKeys :
        Apply("eq", "is_eq", <<a, b>>, RandomizedVerificationKey_is_eq(cs, a, b))

ElementNotIdentity ==
    \E enforce \in BOOLEAN, element \in ElementVars :
        Apply("nonid", "element_not_identity", <<enforce, element>>,
              element_not_identity(cs, enforce, element))

(* A spend authorization key is randomized and compared.                   *)
NextAuth ==
    \/ AllocateAuthorizationKey
    \/ AllocateRandomizer
    \/ AllocateRandomizedKey
    \/ Randomize
    \/ IsEq
    \/ ElementNotIdentity

SpecAuth == Init /\ [][NextAuth]_vars

---------------------------------------------------------------------------
(* Properties of the constructors (specification Spec).                    *)

(* The allocation modes each gadget type is stated to support.             *)
SupportedModes(ty) ==
    CASE ty = "NoteCommitmentVar" -> {"Witness", "Input"}
      [] ty \in {"NullifierVar", "RandomizedVerificationKey"} -> {"Input"}
      [] OTHER -> {"Witness"}

(* The bytes a constructor decompresses into a point, if it does.          *)
DecompressedBytes(ty, input) ==
    CASE ty = "AddressVar" -> <<input.transmission_key>>
      [] ty = "NoteVar" -> <<input.address.transmission_key>>
      [] ty \in {"AuthorizationKeyVar", "RandomizedVerificationKey"} -> <<input>>
      [] OTHER -> <<>>

(* The value supplier succeeded and every encoding in the value is valid.  *)
WellFormedInput ==
    /\ last.supplied
    /\ \A b \in {DecompressedBytes(last.ty, last.input[1])[i] :
                    i \in DOMAIN DecompressedBytes(last.ty, last.input[1])} :
           Encoding_vartime_decompress(b).ok

(* C1: given well-formed input, new_variable(mode) returns a gadget        *)
(* exactly when mode is in the type's supported set, and panics without    *)
(* returning a gadget otherwise.                                           *)
C1_ModeEnforcement ==
    (last.op = "new_variable" /\ WellFormedInput) =>
        IF last.mode \in SupportedModes(last.ty)
        THEN last.status = "ok" /\ Len(last.var) = 1
        ELSE last.status = "panic" /\ last.var = <<>>

C1_Witness ==
    /\ last.op = "new_variable"
    /\ last.ty = "NullifierVar"
    /\ last.mode = "Witness"
    /\ WellFormedInput
    /\ last.status = "panic"

(* C6: a NoteCommitmentVar, NullifierVar or RandomizedVerificationKey      *)
(* allocated with mode Input is a public-input variable of the constraint  *)
(* system: the instance assignment holds its value, and the witness        *)
(* assignment (empty before the call) gains nothing.                       *)
C6_PublicInputRegistered ==
    (/\ last.op = "new_variable"
     /\ last.ty \in {"NoteCommitmentVar", "NullifierVar", "RandomizedVerificationKey"}
     /\ last.mode = "Input"
     /\ last.status = "ok") =>
        LET inner == last.var[1].inner
        IN  /\ inner.kind = "Input"
            /\ inner.idx \in DOMAIN cs.instance
            /\ cs.instance[inner.idx] = inner.val
            /\ cs.witness = <<>>

C10_UnsupportedModeIsFatal ==
    (last.op = "new_variable" /\ last.mode \notin SupportedModes(last.ty)) =>
        last.status = "panic" /\ last.var = <<>>

---------------------------------------------------------------------------
(* Properties of the note pipeline (SpecNote, SpecNullifier).              *)

(* Note::commit, the off-circuit commitment of a note.                     *)
Note_commit(note) ==
    Poseidon(NOTECOMMIT_DOMAIN_SEP,
             <<note.note_blinding,
               Fq_from(note.value.amount),
               note.value.asset_id,
               Element_compress_to_field(note.address.diversified_generator),
               note.address.transmission_key_s,
               Fq_from_le_bytes_mod_order(note.address.clue_key)>>)

ValuesOf(variables) == [i \in 1 .. Len(variables) |-> variables[i].val]

(* C2: commit() hashes, under the note-commitment separator allocated as   *)
(* a constant, exactly (blinding, amount, asset id, compressed diversified *)
(* generator, transmission key field form, clue key) of the allocated      *)
(* note, in that order, and so returns the off-circuit commitment.         *)
C2_CommitIsNoteCommitment ==
    (reg.note # <<>> /\ reg.cm # <<>>) =>
        LET note == given.note[1]
            call == given.cm[1]
        IN  /\ call.domain_sep.kind = "Constant"
            /\ call.domain_sep.val = NOTECOMMIT_DOMAIN_SEP
            /\ ValuesOf(call.inputs) =
                   <<note.note_blinding,
                     Fq_from(note.value.amount),
                     note.value.asset_id,
                     Element_compress_to_field(note.address.diversified_generator),
                     note.address.transmission_key_s,
                     Fq_from_le_bytes_mod_order(note.address.clue_key)>>
            /\ reg.cm[1].inner.val = Poseidon(call.domain_sep.val, ValuesOf(call.inputs))
            /\ reg.cm[1].inner.val = Note_commit(note)

C2_Witness ==
    /\ reg.note # <<>>
    /\ reg.cm # <<>>
    /\ last.op = "commit"
    /\ given.note[1].value.amount = 1
    /\ given.note[1].value.asset_id = Fq(0)
    /\ given.note[1].address.diversified_generator = 1

(* The nullifier the derivation returns for the given key, commitment and  *)
(* position values.                                                        *)
NullifierOf(nk, cm, pos) ==
    NullifierKeyVar_derive_nullifier(
        EmptyCS,
        [inner |-> Variable("Witness", 1, nk)],
        [inner |-> Variable("Witness", 2, pos)],
        [inner |-> Variable("Witness", 3, cm)]).var[1].inner.val

(* C3: derive_nullifier hashes, under the nullifier separator allocated    *)
(* as a constant, exactly (nullifier key, note commitment, position) in    *)
(* that order; changing any one of the three alone changes the result.     *)
C3_NullifierDerivation ==
    reg.nf # <<>> =>
        LET nk == reg.nk[1].inner.val
            cm == reg.cm[1].inner.val
            pos == reg.pos[1].inner.val
            nf == reg.nf[1].inner.val
            call == given.nf[1]
        IN  /\ nk = given.nk[1]
            /\ pos = Fq_from(given.pos[1])
            /\ call.domain_sep.kind = "Constant"
            /\ call.domain_sep.val = NULLIFIER_DOMAIN_SEP
            /\ ValuesOf(call.inputs) = <<nk, cm, pos>>
            /\ nf = Poseidon(NULLIFIER_DOMAIN_SEP, <<nk, cm, pos>>)
            /\ \A nk2 \in NullifierKeys : nk2 # nk => NullifierOf(nk2, cm, pos) # nf
            /\ \A cm2 \in Commitments : cm2 # cm => NullifierOf(nk, cm2, pos) # nf
            /\ \A p2 \in Positions :
                   Fq_from(p2) # pos => NullifierOf(nk, cm, Fq_from(p2)) # nf

C3_Witness ==
    /\ reg.nf # <<>>
    /\ last.op = "derive_nullifier"
    /\ given.nk[1] = Fq(1)
    /\ given.cm[1] = Fq(0)
    /\ given.pos[1] = 1

(* C7: in an allocated AddressVar the witnessed field form of the          *)
(* transmission key equals the in-circuit compression of the witnessed     *)
(* group element, the two being separate witnesses.                        *)
C7_TransmissionKeyFormsAgree ==
    reg.note # <<>> =>
        LET address == reg.note[1].address
        IN  /\ address.transmission_key_s.kind = "Witness"
            /\ address.transmission_key.kind = "Witness"
            /\ address.transmission_key_s.idx # address.transmission_key.idx
            /\ address.transmission_key_s.val =
                   ElementVar_compress_to_field(cs, address.transmission_key).var.val

C7_Witness ==
    /\ reg.note # <<>>
    /\ given.note[1].address.transmission_key = ToLeBytes(2)
    /\ reg.note[1].address.transmission_key.val = Elem(1)
    /\ given.note[1].address.diversified_generator = 0

---------------------------------------------------------------------------
(* Properties of spend authorization (SpecAuth).                           *)

(* C4: randomize returns K + r*B, r being consumed as the little-endian    *)
(* bits of its canonical serialization; for r = 0 the compressed result    *)
(* equals the compressed K.                                                *)
C4_RandomizeIsKeyPlusMultiple ==
    reg.rk # <<>> =>
        LET K == Unwrap(Encoding_vartime_decompress(given.ak[1]))
            r == given.rand[1]
            bits == to_bits_le(reg.rand[1].inner)
            point == reg.rk[1].inner.val[2]
        IN  /\ Len(bits) = NumBytes * ByteBits
            /\ \A k \in DOMAIN bits : bits[k] = ((r \div Pow2(k - 1)) % 2 = 1)
            /\ point = (K + r * SPENDAUTH_BASEPOINT) % FrModulus
            /\ r = 0 => Element_compress_to_field(point) = Element_compress_to_field(K)

C4_Witness ==
    /\ reg.rk # <<>>
    /\ given.rand[1] = 4
    /\ given.ak[1] = ToLeBytes(2)
    /\ reg.rk[1].inner.val = Elem(0)

(* C5: a.is_eq(b) is true exactly when the compressed forms of a's and     *)
(* b's group elements are equal.                                           *)
C5_IsEqComparesBothOperands ==
    reg.eq # <<>> =>
        LET a == given.eq[1]
            b == given.eq[2]
        IN  reg.eq[1].value <=>
                (Element_compress_to_field(a.inner.val[2]) =
                 Element_compress_to_field(b.inner.val[2]))

(* C8: element_not_identity leaves the constraint system unsatisfiable     *)
(* when enforce is true and the element is the identity, and imposes no    *)
(* violated constraint otherwise.                                          *)
C8_IdentityRejection ==
    reg.nonid # <<>> =>
        LET enforce == given.nonid[1]
            element == given.nonid[2]
        IN  is_satisfied(cs) <=> ~(enforce /\ element.val = Elem(Element_default))

C8_Witness ==
    /\ reg.nonid # <<>>
    /\ given.nonid[1]
    /\ given.nonid[2].val = Elem(Element_default)
    /\ ~is_satisfied(cs)

---------------------------------------------------------------------------
(* Sensitivity and domain separation of the commitment (SpecNote).         *)

(* The commitment value commit() returns for a note allocated on its own.  *)
CommitmentOf(note) ==
    LET allocated == NoteVar_new_variable(EmptyCS, Ok(note), "Witness")
    IN  NoteVar_commit(allocated.cs, allocated.var[1]).var[1].inner.val

(* The notes the constructor accepts.                                      *)
AllocatableNotes ==
    {n \in Notes : NoteVar_new_variable(EmptyCS, Ok(n), "Witness").status = "ok"}

(* How many of the six components of two notes differ.                     *)
ComponentsChanged(n1, n2) ==
    Cardinality({k \in 1 .. 6 :
        CASE k = 1 -> n1.note_blinding # n2.note_blinding
          [] k = 2 -> n1.value.amount # n2.value.amount
          [] k = 3 -> n1.value.asset_id # n2.value.asset_id
          [] k = 4 -> n1.address.diversified_generator #
                          n2.address.diversified_generator
          [] k = 5 -> n1.address.transmission_key # n2.address.transmission_key
          [] k = 6 -> n1.address.clue_key # n2.address.clue_key})

(* C11: two notes that differ in exactly one of blinding, amount, asset    *)
(* id, diversified generator, transmission key and clue key have           *)
(* different commitments.                                                  *)
C11_CommitmentSensitivity ==
    (reg.note # <<>> /\ reg.cm # <<>>) =>
        \A n2 \in AllocatableNotes :
            ComponentsChanged(given.note[1], n2) = 1 =>
                CommitmentOf(n2) # reg.cm[1].inner.val

(* C12: commit() and derive_nullifier use different separator constants,   *)
(* and the commitment of a note never equals a nullifier, whether the one  *)
(* derived in the pass or one derived from overlapping inputs.             *)
C12_DomainSeparation ==
    (reg.cm # <<>> /\ reg.nf # <<>>) =>
        LET commit_call == given.cm[1]
            nullifier_call == given.nf[1]
            cm == reg.cm[1].inner.val
            overlapping == FqInputs \cup {cm} \cup
                           {commit_call.inputs[i].val : i \in DOMAIN commit_call.inputs}
        IN  /\ commit_call.domain_sep.kind = "Constant"
            /\ nullifier_call.domain_sep.kind = "Constant"
            /\ commit_call.domain_sep.val # nullifier_call.domain_sep.val
            /\ reg.nf[1].inner.val # cm
            /\ \A nk \in overlapping, c \in overlapping, pos \in overlapping :
                   NullifierOf(nk, c, pos) # cm

C12_Witness ==
    /\ reg.note # <<>>
    /\ reg.cm # <<>>
    /\ reg.nf # <<>>
    /\ last.op = "derive_nullifier"
    /\ given.nf[1].inputs[2].val = reg.cm[1].inner.val
    /\ given.nk[1] = given.note[1].note_blinding

---------------------------------------------------------------------------
(* Threshold custody: dealing the configurations (config.rs).              *)

MaxSigners == 3
MaxKeys == 3

(* The signing keys the random number generator can return.                *)
SigningKeys == 1 .. MaxKeys

(* SigningKey::verification_key: one public key per signing key.           *)
SigningKey_verification_key(sk) == <<"VerificationKey", sk>>

(* frost::Identifier::derive: a hash of the key bytes to a scalar.         *)
Identifier_derive(bytes) == Ok(<<"Identifier", bytes>>)

(* Collecting (key, value) pairs into a HashMap: one entry per key, a      *)
(* later pair replacing an earlier one with the same key.                  *)
HashMap_collect(pairs) ==
    [k \in {pairs[i][1] : i \in DOMAIN pairs} |->
        LET i == CHOOSE i \in DOMAIN pairs :
                     /\ pairs[i][1] = k
                     /\ \A j \in DOMAIN pairs : pairs[j][1] = k => j <= i
        IN  pairs[i][2]]

(* frost::keys::generate_with_dealer with a custom identifier list: it     *)
(* rejects signer counts below two, a threshold above the signer count, a  *)
(* list whose length is not max_signers, and a list with a repeated        *)
(* identifier; otherwise it returns one share per identifier and the       *)
(* public key package.                                                     *)
generate_with_dealer(max_signers, min_signers, identifiers, secret) ==
    LET ids == {identifiers[i] : i \in DOMAIN identifiers}
    IN  IF min_signers < 2 \/ max_signers < 2 \/ min_signers > max_signers
        THEN Err
        ELSE IF Len(identifiers) # max_signers THEN Err
        ELSE IF Cardinality(ids) # Len(identifiers) THEN Err
        ELSE Ok([share_map |->
                     [id \in ids |-> <<"SigningShare", secret, id>>],
                 public_key_package |->
                     [signer_pubkeys |->
                          [id \in ids |-> <<"VerifyingShare", secret, id>>],
                      group_public |-> <<"VerifyingKey", secret>>]])

NullifierKey(fq) == <<"NullifierKey", fq>>

FullViewingKey_from_components(ak, nk) == [ak |-> ak, nk |-> nk]

(* A faulty variant: the signer count is stored as the threshold.          *)
Config_deal_threshold_n(rng, t, n, order) ==
    LET drawn == [i \in 1 .. n |->
                     <<SigningKey_verification_key(rng.keys[i]), rng.keys[i]>>]
        signing_keys == HashMap_collect(drawn)
        identifiers ==
            [pk \in DOMAIN signing_keys |-> Unwrap(Identifier_derive(pk))]
        dealt == generate_with_dealer(
                     n, t, [i \in DOMAIN order |-> identifiers[order[i]]],
                     rng.secret)
    IN  IF ~dealt.ok THEN Err
        ELSE
            LET share_map == Unwrap(dealt).share_map
                public_key_package == Unwrap(dealt).public_key_package
                verifying_shares ==
                    [pk \in DOMAIN signing_keys |->
                        public_key_package.signer_pubkeys[
                            Unwrap(Identifier_derive(pk))]]
                fvk == FullViewingKey_from_components(
                           public_key_package.group_public,
                           NullifierKey(rng.nk))
            IN  Ok([i \in DOMAIN order |->
                       [threshold |-> n,
                        signing_key |-> signing_keys[order[i]],
                        fvk |-> fvk,
                        spend_key_share |-> share_map[identifiers[order[i]]],
                        verifying_shares |-> verifying_shares]])

(* Config::deal.  rng holds what the random number generator returns: the  *)
(* n signing keys, the dealer's secret and the nullifier key.  order is    *)
(* the order in which the HashMap of signing keys is iterated.             *)
Config_deal(rng, t, n, order) ==
    LET drawn == [i \in 1 .. n |->
                     <<SigningKey_verification_key(rng.keys[i]), rng.keys[i]>>]
        signing_keys == HashMap_collect(drawn)
        identifiers ==
            [pk \in DOMAIN signing_keys |-> Unwrap(Identifier_derive(pk))]
        dealt == generate_with_dealer(
                     n, t, [i \in DOMAIN order |-> identifiers[order[i]]],
                     rng.secret)
    IN  IF ~dealt.ok THEN Err
        ELSE
            LET share_map == Unwrap(dealt).share_map
                public_key_package == Unwrap(dealt).public_key_package
                verifying_shares ==
                    [pk \in DOMAIN signing_keys |->
                        public_key_package.signer_pubkeys[
                            Unwrap(Identifier_derive(pk))]]
                fvk == FullViewingKey_from_components(
                           public_key_package.group_public,
                           NullifierKey(rng.nk))
            IN  Ok([i \in DOMAIN order |->
                       [threshold |-> t,
                        signing_key |-> signing_keys[order[i]],
                        fvk |-> fvk,
                        spend_key_share |-> share_map[identifiers[order[i]]],
                        verifying_shares |-> verifying_shares]])

Config_threshold(self) == self.threshold

Config_signing_key(self) == self.signing_key

Config_fvk(self) == self.fvk

Config_verification_keys(self) == DOMAIN self.verifying_shares

(* What the generator can return for a call with n signers.                *)
Rngs(n) == [keys : [1 .. n -> SigningKeys], secret : Scalars, nk : FqInputs]

(* The iteration orders of a HashMap with the given key set.               *)
IterationOrders(keySet) ==
    {o \in [1 .. Cardinality(keySet) -> keySet] :
        \A i, j \in DOMAIN o : o[i] = o[j] => i = j}

(* One call of Config::deal.                                               *)
Deal ==
    /\ status = "ok"
    /\ last.op = "none"
    /\ \E n \in 0 .. MaxSigners, t \in 0 .. MaxSigners :
           \E rng \in Rngs(n) :
               \E order \in IterationOrders(
                      {SigningKey_verification_key(rng.keys[i]) : i \in 1 .. n}) :
                   LET res == Config_deal(rng, t, n, order)
                       outcome == IF res.ok THEN "ok" ELSE "err"
                   IN  /\ status' = outcome
                       /\ last' = [op |-> "deal", ty |-> "Config",
                                   mode |-> "none", supplied |-> TRUE,
                                   input |-> <<[t |-> t, n |-> n, rng |-> rng]>>,
                                   status |-> outcome, var |-> res.val,
                                   call |-> <<>>]
                       /\ UNCHANGED <<cs, reg, given>>

NextDeal == Deal

SpecDeal == Init /\ [][NextDeal]_vars

====
